---------------------------- MODULE Spec2Model ----------------------------
(***************************************************************************)
(* A model of the term-revealing research toolkit:                         *)
(*   - the channel-group gating operator cgm (src/cgm.py),                 *)
(*   - the conflict-matrix accumulation evaluate() and the first-fit       *)
(*     packing first_fit() (src/evaluate_activation.py),                   *)
(*   - the running-average meter AverageMeter (src/util.py),               *)
(*   - the checkpoint key normalisation (src/evaluate_activation.py),      *)
(*   - the term-pair histogram get_term_count                              *)
(*     (src/evaluate_term_pairs.py).                                       *)
(* Every component has its own specification (SpecCgm, SpecEval, ...);     *)
(* the variables of the other components stay at their idle value.        *)
(***************************************************************************)
EXTENDS Integers, Sequences, FiniteSets, TLC

VARIABLES
    \* ---- cgm (src/cgm.py) ----
    cgm_pc,         \* "start", "fwd" (forward returned), "again" (forward applied
                    \* to its own output), "bwd" (backward returned)
    cgm_x,          \* the caller's input tensor (its storage may be shared with
                    \* the working view of forward)
    cgm_x_in,       \* the value of the input tensor at the call of forward
    group_size,     \* the group size of the operator
    is_cuda,        \* whether the tensor is device resident (accelerated path)
    cgm_out,        \* the tensor forward returned (its storage may be shared
                    \* with the input and with a later call's working view)
    cgm_out_ret,    \* the value of that tensor when forward returned it
    cgm_out2,       \* what forward returned when applied to cgm_out
    grad_output,    \* the upstream gradient tensor handed to backward
    grad_up,        \* the value of the upstream gradient at the call of backward
    grad_input      \* what backward returned

VARIABLES
    \* ---- evaluate (src/evaluate_activation.py) ----
    ev_pc,            \* "loop" (between batches), "tracker" (inside the tracker
                      \* loop of a batch), "done" (returned), "error" (raised)
    dataset,          \* the images behind the loader, in loader order
    batch_size,       \* the loader's batch size
    average_trackers, \* the layers the trackers of the model sit behind
    tracker_x,        \* tracker.x of every tracker after model(images)
    ev_i,             \* index i of the current batch
    ev_k,             \* index k of the next tracker of the current batch
    conflict_mats,    \* the list conflict_mats
    data_shapes,      \* the list data_shapes
    num_samples       \* the running number of targets seen

evalVars == <<ev_pc, dataset, batch_size, average_trackers, tracker_x, ev_i, ev_k,
              conflict_mats, data_shapes, num_samples>>

VARIABLES
    \* ---- first_fit (src/evaluate_activation.py) ----
    ff_pc,              \* "scan" (inside the loops), "done" (returned)
    conflict_mat,       \* the conflict matrix handed to first_fit
    max_conflict_score, \* the threshold
    max_columns,        \* the capacity of a bin
    bins,               \* the list bins
    ff_column,          \* the channel of the outer loop
    ff_b                \* the index (from 0) of the bin the inner loop is at

fitVars == <<ff_pc, conflict_mat, max_conflict_score, max_columns, bins,
             ff_column, ff_b>>

VARIABLES
    \* ---- AverageMeter (src/util.py) ----
    meter_val,      \* self.val
    meter_avg,      \* self.avg, a fraction <<numerator, denominator>>
    meter_sum,      \* self.sum
    meter_count,    \* self.count
    updates         \* the calls update(val, n) since the last reset, as <<val, n>>

meterVars == <<meter_val, meter_avg, meter_sum, meter_count, updates>>

VARIABLES
    \* ---- checkpoint load (src/evaluate_activation.py) ----
    ck_pc,          \* "loop" (inside the key loop), "done" (state_dict built)
    tmp_state_dict, \* the checkpoint's state_dict: <<key, value>> in key order
    state_dict,     \* the dict being built: <<key, value>> in insertion order
    ck_n            \* the number of keys the loop has handled

ckptVars == <<ck_pc, tmp_state_dict, state_dict, ck_n>>

VARIABLES
    \* ---- get_term_count (src/evaluate_term_pairs.py) ----
    tc_pc,          \* "loop" (inside the group loop), "done" (returned)
    tc_x,           \* model.features[8][0].x in units of 2**-7, shape (B,C,W,H)
    tc_w,           \* model.features[8][1].weight.data in units of its scale
                    \* factor, shape (F,C,1,1)
    quant_func,     \* "hese" or "binary"
    minlength,      \* <<>> for None, <<n>> for the length n
    tc_group_size,  \* the global group_size
    all_res,        \* the list all_res
    tc_i,           \* the group index i of the loop
    tc_hist         \* the histogram returned

termVars == <<tc_pc, tc_x, tc_w, quant_func, minlength, tc_group_size, all_res,
              tc_i, tc_hist>>

VARIABLES
    \* ---- AverageTracker (src/evaluate_activation.py) ----
    at_shape,       \* the per-sample shape at the tracker's place in the network
    at_count,       \* self.count
    at_data,        \* self.data (NoTensor for None)
    at_zeros,       \* self.zeros (NoTensor before the attribute is set)
    at_x,           \* self.x (NoTensor for None)
    at_ret,         \* what the latest forward call returned
    at_seen,        \* the batches passed to forward so far, in order
    at_cz           \* the outcome of channel_zeros() called on the present state

trackVars == <<at_shape, at_count, at_data, at_zeros, at_x, at_ret, at_seen, at_cz>>

VARIABLES
    \* ---- train (src/util.py) ----
    tr_pc,          \* the position in train()
    train_loader,   \* the batches the loader delivers: [size, loss]
    tr_num_samples, \* train_loader.num_samples
    tr_training,    \* model.train() and loss.train() were called
    tr_i,           \* the number of batches finished
    tr_batchsize,   \* batchsize
    tr_grads,       \* the batches whose gradients lie summed in the
                    \* parameters' .grad (0: from before the call)
    tr_prediction,  \* the batch the prediction in hand was computed from
    tr_loss_value,  \* loss_value.item() of the loss in hand
    model_loss,     \* model_loss
    loss_meter,     \* loss_meter: [val, sum, count, avg]
    time_updates,   \* the numbers of updates of data_time and batch_time
    tr_events,      \* the calls made on the optimizer, model and loss
    tr_ret          \* the value returned

trainVars == <<tr_pc, train_loader, tr_num_samples, tr_training, tr_i,
               tr_batchsize, tr_grads, tr_prediction, tr_loss_value, model_loss,
               loss_meter, time_updates, tr_events, tr_ret>>

VARIABLES
    \* ---- InMemoryImageNet.__init__ (src/evaluate_activation.py) ----
    im_pc,          \* "read" (in the loop over the file), "closed"
    im_file,        \* the records of the file at path, in file order
    im_num_samples, \* self.num_samples
    im_samples,     \* self.samples
    im_i            \* the number of records the unpacker has handed out

loadVars == <<im_pc, im_file, im_num_samples, im_samples, im_i>>

cgmVars == <<cgm_pc, cgm_x, cgm_x_in, group_size, is_cuda, cgm_out,
             cgm_out_ret, cgm_out2, grad_output, grad_up, grad_input>>

vars == <<cgmVars, evalVars, fitVars, meterVars, ckptVars, termVars,
          trackVars, trainVars, loadVars>>

\* What the operations of one component leave alone: the other components.
cgmFrame == <<evalVars, fitVars, meterVars, ckptVars, termVars, trackVars,
              trainVars, loadVars>>
evalFrame == <<cgmVars, fitVars, meterVars, ckptVars, termVars, trackVars,
               trainVars, loadVars>>
fitFrame == <<cgmVars, evalVars, meterVars, ckptVars, termVars, trackVars,
              trainVars, loadVars>>
meterFrame == <<cgmVars, evalVars, fitVars, ckptVars, termVars, trackVars,
                trainVars, loadVars>>
ckptFrame == <<cgmVars, evalVars, fitVars, meterVars, termVars, trackVars,
               trainVars, loadVars>>
termFrame == <<cgmVars, evalVars, fitVars, meterVars, ckptVars, trackVars,
               trainVars, loadVars>>
trackFrame == <<cgmVars, evalVars, fitVars, meterVars, ckptVars, termVars,
                trainVars, loadVars>>
trainFrame == <<cgmVars, evalVars, fitVars, meterVars, ckptVars, termVars,
                trackVars, loadVars>>
loadFrame == <<cgmVars, evalVars, fitVars, meterVars, ckptVars, termVars,
               trackVars, trainVars>>

-----------------------------------------------------------------------------
(* Integers and sequences.                                                 *)

Max(S) == CHOOSE m \in S : \A e \in S : e <= m

RECURSIVE Prod(_)
Prod(s) == IF s = <<>> THEN 1 ELSE Head(s) * Prod(Tail(s))

RECURSIVE SumSeq(_)
SumSeq(s) == IF s = <<>> THEN 0 ELSE Head(s) + SumSeq(Tail(s))

-----------------------------------------------------------------------------
(* Tensors: a shape and the elements in contiguous (row-major) order.      *)
(* Element f (counted from 0) is data[f + 1].                              *)

Numel(shape) == Prod(shape)

\* The row-major stride of dimension k of a contiguous tensor of this shape.
StrideOf(shape, k) == Prod(SubSeq(shape, k + 1, Len(shape)))

\* Coordinate k of the element at flat position f.
Coord(f, shape, k) == (f \div StrideOf(shape, k)) % shape[k]

\* The flat position of the element with multi-index idx.
Flat(idx, shape) == SumSeq([k \in 1..Len(shape) |-> idx[k] * StrideOf(shape, k)])

Tensor(shape, data) == [shape |-> shape, data |-> data]

NoTensor == Tensor(<<>>, <<>>)

\* The flat position, in t, of element f of t.permute(perm): dimension k of
\* the permuted tensor is dimension perm[k] of t (perm is written 1-based:
\* torch's (2,3,0,1) is <<3,4,1,2>>).
PermuteSource(shape, perm, f) ==
    LET n      == Len(shape)
        nshape == [k \in 1..n |-> shape[perm[k]]]
        inv    == [d \in 1..n |-> CHOOSE k \in 1..n : perm[k] = d]
    IN  Flat([d \in 1..n |-> Coord(f, nshape, inv[d])], shape)

\* t.permute(perm).contiguous().
PermuteContiguous(t, perm) ==
    LET nshape == [k \in 1..Len(t.shape) |-> t.shape[perm[k]]]
    IN  Tensor(nshape,
               [i \in 1..Numel(nshape) |->
                   t.data[PermuteSource(t.shape, perm, i - 1) + 1]])

\* t.view(shape) of a contiguous tensor: the same elements, another shape.
View(t, shape) == Tensor(shape, t.data)

\* Whether x.permute(2,3,0,1) is already contiguous (its elements lie in
\* memory in their logical order): .contiguous() then returns the permuted
\* view itself, and the tensor forward works on shares the storage of x.
PermutedIsContiguous(shape) ==
    \A f \in 0..(Numel(shape) - 1) : PermuteSource(shape, <<3, 4, 1, 2>>, f) = f

\* x[x != x.max(dim=1, keepdim=True)[0]] = 0 on a 2-D tensor: in every row,
\* every element that differs from the row's maximum becomes 0.
MaskMax(t) ==
    LET cols   == t.shape[2]
        row(i) == (i - 1) \div cols
        rmax(r) == Max({t.data[r * cols + c] : c \in 1..cols})
    IN  Tensor(t.shape,
               [i \in 1..Len(t.data) |->
                   IF t.data[i] # rmax(row(i)) THEN 0 ELSE t.data[i]])

\* The mutant: the rows are cut from x as it lies in memory (B,C,W,H), the
\* permutation that brings the channels together left out.
HostForwardNoPermute(x, g) ==
    LET v == View(x, <<Numel(x.shape) \div g, g>>)
    IN  View(MaskMax(v), x.shape)

\* The mutant: the masked tensor is returned in its working layout (W,H,B,C).
HostForwardNoPermuteBack(x, g) ==
    LET p == PermuteContiguous(x, <<3, 4, 1, 2>>)
        v == View(p, <<Numel(x.shape) \div g, g>>)
    IN  View(MaskMax(v), p.shape)

\* cgm.forward, the portable path (x is not device resident).
HostForward(x, g) ==
    LET B == x.shape[1]
        C == x.shape[2]
        W == x.shape[3]
        H == x.shape[4]
        p == PermuteContiguous(x, <<3, 4, 1, 2>>)
        v == View(p, <<Numel(x.shape) \div g, g>>)
        m == MaskMax(v)
    IN  PermuteContiguous(View(m, <<W, H, B, C>>), <<3, 4, 1, 2>>)

\* The input tensor after the portable forward: when the permuted view is
\* already contiguous the masking writes through to the caller's tensor.
HostForwardInput(x, g) ==
    IF PermutedIsContiguous(x.shape) THEN Tensor(x.shape, HostForward(x, g).data)
    ELSE x

\* cgm_cuda.forward: the accelerated kernel, by its contract of the same
\* group-maximum masking.
CudaForward(x, g) ==
    LET C == x.shape[2]
        W == x.shape[3]
        H == x.shape[4]
        at(b, c, w, h) == x.data[((b * C + c) * W + w) * H + h + 1]
        gmax(b, c, w, h) ==
            Max({at(b, (c \div g) * g + j, w, h) : j \in 0..(g - 1)})
        val(f) == LET b == Coord(f, x.shape, 1)
                      c == Coord(f, x.shape, 2)
                      w == Coord(f, x.shape, 3)
                      h == Coord(f, x.shape, 4)
                  IN  IF at(b, c, w, h) = gmax(b, c, w, h) THEN at(b, c, w, h) ELSE 0
    IN  Tensor(x.shape, [i \in 1..Numel(x.shape) |-> val(i - 1)])

\* The forward group-maximum mask for groups of g channels, recomputed from
\* the saved input x and applied to the gradient.
MaskByGroupMax(grad, x, g) ==
    LET C == x.shape[2]
        W == x.shape[3]
        H == x.shape[4]
        at(b, c, w, h) == x.data[((b * C + c) * W + w) * H + h + 1]
        gmax(f) ==
            LET b == Coord(f, x.shape, 1)
                c == Coord(f, x.shape, 2)
                w == Coord(f, x.shape, 3)
                h == Coord(f, x.shape, 4)
            IN  Max({at(b, (c \div g) * g + j, w, h) : j \in 0..(g - 1)})
    IN  Tensor(grad.shape,
               [i \in 1..Len(grad.data) |->
                   IF x.data[i] = gmax(i - 1) THEN grad.data[i] ELSE 0])

\* cgm_cuda.backward(grad_output, x): the kernel is handed the gradient and
\* the saved input and no group size. By its contract it applies a
\* recomputed group-maximum mask; the size of the groups it takes is not
\* fixed by the call, so every size dividing C is a possible outcome, the
\* same outcomes whatever the operator's group_size.
CudaBackward(grad, x) ==
    {MaskByGroupMax(grad, x, gk) : gk \in {d \in 1..x.shape[2] : x.shape[2] % d = 0}}

\* cgm.backward, the host branch: grad_output[x<0] = 0, in place.
HostBackward(grad, x) ==
    Tensor(grad.shape,
           [i \in 1..Len(grad.data) |-> IF x.data[i] < 0 THEN 0 ELSE grad.data[i]])

-----------------------------------------------------------------------------
(* The gating operator as a state machine: one forward call, then either   *)
(* a second forward call on the output or the backward call.               *)

MaxElems == 4
MaxVal == 1
Vals == (-2)..MaxVal

Shapes == {s \in [1..4 -> 1..MaxElems] : Numel(s) <= MaxElems}

\* The upstream gradients tried: a constant one, its negative and a ramp.
GradDatas(n) == {[i \in 1..n |-> 1], [i \in 1..n |-> -1], [i \in 1..n |-> i]}

CgmIdle ==
    /\ cgm_pc = "idle"
    /\ cgm_x = NoTensor /\ cgm_x_in = NoTensor
    /\ group_size = 1 /\ is_cuda = FALSE
    /\ cgm_out = NoTensor /\ cgm_out_ret = NoTensor /\ cgm_out2 = NoTensor
    /\ grad_output = NoTensor /\ grad_up = NoTensor /\ grad_input = NoTensor

CgmInit ==
    /\ cgm_pc = "start"
    /\ \E s \in Shapes : \E d \in [1..Numel(s) -> Vals] :
          /\ cgm_x = Tensor(s, d)
          /\ cgm_x_in = Tensor(s, d)
          /\ group_size \in {g \in 1..s[2] : s[2] % g = 0}
    /\ is_cuda \in BOOLEAN
    /\ cgm_out = NoTensor /\ cgm_out_ret = NoTensor /\ cgm_out2 = NoTensor
    /\ grad_output = NoTensor /\ grad_up = NoTensor /\ grad_input = NoTensor

\* cgm.forward(ctx, x, group_size): ctx.save_for_backward(x) keeps a
\* reference to the input tensor, so the saved tensor is cgm_x.
Forward ==
    /\ cgm_pc = "start"
    /\ IF is_cuda
       THEN /\ cgm_out' = CudaForward(cgm_x, group_size)
            /\ cgm_x' = cgm_x
       ELSE /\ cgm_out' = HostForward(cgm_x, group_size)
            /\ cgm_x' = HostForwardInput(cgm_x, group_size)
    /\ cgm_out_ret' = cgm_out'
    /\ cgm_pc' = "fwd"
    /\ UNCHANGED <<cgm_x_in, group_size, is_cuda, cgm_out2, grad_output,
                   grad_up, grad_input>>
    /\ UNCHANGED cgmFrame

\* The operator applied to its own output. On the host the masking writes
\* through to the tensor passed in when its permuted view is contiguous,
\* and then also to the first input, whose storage that tensor shares.
ForwardAgain ==
    /\ cgm_pc = "fwd"
    /\ IF is_cuda
       THEN /\ cgm_out2' = CudaForward(cgm_out, group_size)
            /\ cgm_out' = cgm_out
            /\ cgm_x' = cgm_x
       ELSE /\ cgm_out2' = HostForward(cgm_out, group_size)
            /\ cgm_out' = HostForwardInput(cgm_out, group_size)
            /\ cgm_x' = IF PermutedIsContiguous(cgm_x.shape)
                        THEN HostForwardInput(cgm_out, group_size)
                        ELSE cgm_x
    /\ cgm_pc' = "again"
    /\ UNCHANGED <<cgm_x_in, group_size, is_cuda, cgm_out_ret, grad_output,
                   grad_up, grad_input>>
    /\ UNCHANGED cgmFrame

\* grad_output.is_cuda: autograd hands backward a gradient on the device of
\* the forward output, which is the device of x.
GradOutputIsCuda == is_cuda

\* cgm.backward(ctx, grad_output) with an upstream gradient of the output's
\* shape; the host branch overwrites grad_output in place and returns it.
Backward ==
    /\ cgm_pc = "fwd"
    /\ \E gd \in GradDatas(Numel(cgm_out.shape)) :
          LET g == Tensor(cgm_out.shape, gd)
          IN  \E r \in (IF GradOutputIsCuda THEN CudaBackward(g, cgm_x)
                        ELSE {HostBackward(g, cgm_x)}) :
                 /\ grad_up' = g
                 /\ grad_input' = r
                 /\ grad_output' = IF GradOutputIsCuda THEN g ELSE r
    /\ cgm_pc' = "bwd"
    /\ UNCHANGED <<cgm_x, cgm_x_in, group_size, is_cuda, cgm_out, cgm_out_ret,
                   cgm_out2>>
    /\ UNCHANGED cgmFrame

CgmNext == Forward \/ ForwardAgain \/ Backward


-----------------------------------------------------------------------------
(* Properties of the gating operator.                                      *)

\* Element (b, c, w, h) of a 4-D tensor of shape (B, C, W, H).
ElemAt(t, b, c, w, h) ==
    t.data[((b * t.shape[2] + c) * t.shape[3] + w) * t.shape[4] + h + 1]

\* The elements of the group of g contiguous channels that holds channel c.
GroupElems(t, g, b, c, w, h) ==
    {ElemAt(t, b, (c \div g) * g + j, w, h) : j \in 0..(g - 1)}

Positions(t) ==
    (0..(t.shape[1] - 1)) \X (0..(t.shape[2] - 1)) \X
    (0..(t.shape[3] - 1)) \X (0..(t.shape[4] - 1))

\* C1: the portable forward returns a tensor of the input's shape in which
\* every element equal to the maximum of its group of group_size contiguous
\* channels (at the same batch and spatial position) keeps its place and
\* value, ties included, and every other element is exactly 0. (The tensor
\* is taken as it was returned; until another call writes to it, it is the
\* tensor as it stands.)
C1_ForwardKeepsGroupMaxima ==
    (cgm_pc # "start" /\ ~is_cuda) =>
        /\ cgm_out_ret.shape = cgm_x_in.shape
        /\ Len(cgm_out_ret.data) = Numel(cgm_x_in.shape)
        /\ cgm_pc \in {"fwd", "bwd"} => cgm_out = cgm_out_ret
        /\ \A p \in Positions(cgm_x_in) :
              ElemAt(cgm_out_ret, p[1], p[2], p[3], p[4]) =
                 IF ElemAt(cgm_x_in, p[1], p[2], p[3], p[4]) =
                       Max(GroupElems(cgm_x_in, group_size, p[1], p[2], p[3], p[4]))
                 THEN ElemAt(cgm_x_in, p[1], p[2], p[3], p[4])
                 ELSE 0

\* The portable forward has run on a tensor with several spatial positions
\* and groups of two channels: one group has a tie for a nonzero maximum and
\* both survive, and some element of the input was zeroed.
C1_Witness ==
    /\ cgm_pc = "fwd" /\ ~is_cuda
    /\ group_size = 2
    /\ cgm_x_in.shape[3] * cgm_x_in.shape[4] >= 2
    /\ \E p \in Positions(cgm_x_in) :
          /\ p[2] = 0
          /\ ElemAt(cgm_x_in, p[1], 0, p[3], p[4]) = ElemAt(cgm_x_in, p[1], 1, p[3], p[4])
          /\ ElemAt(cgm_out, p[1], 0, p[3], p[4]) # 0
          /\ ElemAt(cgm_out, p[1], 0, p[3], p[4]) = ElemAt(cgm_out, p[1], 1, p[3], p[4])
    /\ \E p \in Positions(cgm_x_in) :
          /\ ElemAt(cgm_x_in, p[1], p[2], p[3], p[4]) # 0
          /\ ElemAt(cgm_out, p[1], p[2], p[3], p[4]) = 0

\* C2 as stated, on the portable path: for every input and every group size
\* dividing C, applying the forward pass to its own output gives the same
\* tensor as applying it once (the two tensors compared after the second
\* call).
C2_IdempotentOnEveryInput ==
    (cgm_pc = "again" /\ ~is_cuda) => cgm_out2 = cgm_out

\* Every group of the tensor has a maximum >= 0 or holds one value only.
GroupsSettle(t, g) ==
    \A p \in Positions(t) :
        LET e == GroupElems(t, g, p[1], p[2], p[3], p[4])
        IN  Max(e) >= 0 \/ Cardinality(e) = 1

\* The second call on the host writes its result into the tensor it was
\* given: the permuted view of a tensor of this shape is contiguous.
WritesThrough == ~is_cuda /\ PermutedIsContiguous(cgm_x_in.shape)

\* C2, amended, on the portable path: the second pass returns the values the first pass returned
\* exactly when every group of the input has a non-negative maximum or
\* consists of equal elements (group size 1 included); a group of negative
\* elements that are not all equal keeps its maximum in the first pass and
\* loses it to the zeros in the second. Compared after the second call, the
\* two tensors differ exactly when the groups do not settle and the second
\* call did not write through to the first output; where it writes through,
\* the first output and the first input hold the second result.
C2_IdempotentWhenGroupsSettle ==
    (cgm_pc = "again" /\ ~is_cuda) =>
        /\ (cgm_out2 = cgm_out_ret) <=> GroupsSettle(cgm_x_in, group_size)
        /\ (cgm_out2 = cgm_out) <=>
              (GroupsSettle(cgm_x_in, group_size) \/ WritesThrough)
        /\ WritesThrough => cgm_out = cgm_out2 /\ cgm_x = cgm_out2
        /\ ~WritesThrough => cgm_out = cgm_out_ret

\* The portable forward was applied twice to an input with groups of two
\* channels and several spatial positions whose groups settle; the first
\* pass changed the input and the second changed nothing.
C2_Witness ==
    /\ cgm_pc = "again" /\ ~is_cuda
    /\ group_size = 2
    /\ cgm_x_in.shape[3] * cgm_x_in.shape[4] >= 2
    /\ GroupsSettle(cgm_x_in, group_size)
    /\ cgm_out # cgm_x_in
    /\ cgm_out2 = cgm_out

\* C3: for the same input, group size and upstream gradient the portable
\* path gives the forward output and the input gradient of the accelerated
\* path, whose backward by its contract applies the forward group-maximum
\* mask, recomputed from the saved input, to the incoming gradient.
C3_PortableMatchesAccelerated ==
    (cgm_pc = "bwd" /\ ~is_cuda) =>
        /\ cgm_out = CudaForward(cgm_x_in, group_size)
        /\ grad_input = MaskByGroupMax(grad_up, cgm_x_in, group_size)

-----------------------------------------------------------------------------
(* evaluate(loader, model, args, name): the conflict matrices of the       *)
(* instrumented layers, accumulated over one pass of the loader.           *)

MaxSamples == 2
MaxTrackers == 3
PixVals == {0, 3}

\* An image is two pixel values; the loader delivers the images of the
\* dataset in order, batch_size at a time, the last batch possibly short.
Images == [1..2 -> PixVals]

\* The instrumented layers: a fully connected one (2-D activations) and
\* convolutional ones (4-D activations) of C channels and W x H positions.
FcLayer == [nd |-> 2, C |-> 2, W |-> 1, H |-> 1]
ConvLayer(C, W, H) == [nd |-> 4, C |-> C, W |-> W, H |-> H]
Layers == {FcLayer, ConvLayer(2, 2, 1), ConvLayer(1, 1, 1)}

\* The network under evaluation, a fixed function of the image: the value
\* of channel c at position (w, h) of a layer.
LayerValue(img, c, w, h) ==
    IF w + h = 0 THEN img[(c % 2) + 1]
    ELSE IF c = 0 THEN img[2] ELSE img[1] * img[2]

\* tracker.x after model(images): the layer's activation of the batch.
LayerOutput(layer, images) ==
    LET B == Len(images)
        shape == IF layer.nd = 4 THEN <<B, layer.C, layer.W, layer.H>>
                 ELSE <<B, layer.C>>
        full  == <<B, layer.C, layer.W, layer.H>>
    IN  Tensor(shape,
               [n \in 1..Numel(full) |->
                   LayerValue(images[Coord(n - 1, full, 1) + 1],
                              Coord(n - 1, full, 2),
                              Coord(n - 1, full, 3),
                              Coord(n - 1, full, 4))])

NumBatches == (Len(dataset) + batch_size - 1) \div batch_size

\* Batch i (from 0) of the loader.
BatchImages(i) ==
    SubSeq(dataset, i * batch_size + 1,
           IF (i + 1) * batch_size < Len(dataset) THEN (i + 1) * batch_size
           ELSE Len(dataset))

\* data[data != 0] = 1
Binarize(t) ==
    Tensor(t.shape, [n \in 1..Len(t.data) |-> IF t.data[n] # 0 THEN 1 ELSE t.data[n]])

\* torch.transpose(m, 0, 1) of a 2-D tensor, as the values it denotes.
Transpose(m) == PermuteContiguous(m, <<2, 1>>)

\* torch.mm(a, b)
Mm(a, b) ==
    LET n == a.shape[1]
        k == a.shape[2]
        p == b.shape[2]
    IN  Tensor(<<n, p>>,
               [e \in 1..(n * p) |->
                   LET i == (e - 1) \div p
                       j == (e - 1) % p
                   IN  SumSeq([l \in 1..k |->
                                  a.data[i * k + l] * b.data[(l - 1) * p + j + 1]])])

\* data.permute(1, 0, 2, 3).contiguous().view(C, -1) of the binarized
\* activation, multiplied with its transpose.
CoActivation(x) ==
    LET data == Binarize(x)
        C    == data.shape[2]
        d    == View(PermuteContiguous(data, <<2, 1, 3, 4>>),
                     <<C, Numel(data.shape) \div C>>)
    IN  Mm(d, Transpose(d))

RECURSIVE Gcd(_, _)
Gcd(a, b) == IF b = 0 THEN a ELSE Gcd(b, a % b)

\* The quotient n / d (d > 0, n >= 0) as a fraction in lowest terms.
Quot(n, d) == <<n \div Gcd(n, d), d \div Gcd(n, d)>>

\* The mutant: the matrix is divided and its diagonal is left as it is.
NormalizeKeepDiag(mat, shape, n) ==
    Tensor(mat.shape,
           [e \in 1..Len(mat.data) |-> Quot(mat.data[e], n * shape[2] * shape[3])])

\* The last loop of evaluate on one matrix: the diagonal is set to 0 and the
\* matrix divided by num_samples*W*H.
Normalize(mat, shape, n) ==
    LET C == mat.shape[1]
    IN  Tensor(mat.shape,
               [e \in 1..Len(mat.data) |->
                   Quot(IF (e - 1) \div C = (e - 1) % C THEN 0 ELSE mat.data[e],
                        n * shape[2] * shape[3])])

EvalIdle ==
    /\ ev_pc = "idle"
    /\ dataset = <<>> /\ batch_size = 1 /\ average_trackers = <<>>
    /\ tracker_x = <<>> /\ ev_i = 0 /\ ev_k = 0
    /\ conflict_mats = <<>> /\ data_shapes = <<>> /\ num_samples = 0

SeqsUpTo(S, n) == UNION {[1..m -> S] : m \in 0..n}

EvalInit ==
    /\ ev_pc = "loop"
    /\ dataset \in SeqsUpTo(Images, MaxSamples)
    /\ batch_size \in 1..MaxSamples
    /\ average_trackers \in SeqsUpTo(Layers, MaxTrackers)
    /\ tracker_x = <<>> /\ ev_i = 0 /\ ev_k = 0
    /\ conflict_mats = <<>> /\ data_shapes = <<>> /\ num_samples = 0

\* The head of the batch loop: num_samples += len(target); model(images)
\* leaves the batch's activation in the x of every tracker.
ModelForward ==
    /\ ev_pc = "loop" /\ ev_i < NumBatches
    /\ num_samples' = num_samples + Len(BatchImages(ev_i))
    /\ tracker_x' = [k \in 1..Len(average_trackers) |->
                        LayerOutput(average_trackers[k], BatchImages(ev_i))]
    /\ ev_k' = 0
    /\ ev_pc' = "tracker"
    /\ UNCHANGED <<dataset, batch_size, average_trackers, ev_i, conflict_mats,
                   data_shapes>>
    /\ UNCHANGED evalFrame

\* if len(data.shape) < 4: continue
TrackerSkip ==
    /\ ev_pc = "tracker" /\ ev_k < Len(average_trackers)
    /\ Len(tracker_x[ev_k + 1].shape) < 4
    /\ ev_k' = ev_k + 1
    /\ UNCHANGED <<ev_pc, dataset, batch_size, average_trackers, tracker_x, ev_i,
                   conflict_mats, data_shapes, num_samples>>
    /\ UNCHANGED evalFrame

\* First batch: the shape and the matrix of the tracker are appended.
TrackerFirst ==
    /\ ev_pc = "tracker" /\ ev_k < Len(average_trackers)
    /\ Len(tracker_x[ev_k + 1].shape) >= 4
    /\ ev_i = 0
    /\ LET x == tracker_x[ev_k + 1]
       IN  /\ data_shapes' = Append(data_shapes, <<x.shape[2], x.shape[3], x.shape[4]>>)
           /\ conflict_mats' = Append(conflict_mats, CoActivation(x))
    /\ ev_k' = ev_k + 1
    /\ UNCHANGED <<ev_pc, dataset, batch_size, average_trackers, tracker_x, ev_i,
                   num_samples>>
    /\ UNCHANGED evalFrame

\* Whether a += b is defined: b has the shape of a or broadcasts to it.
AddsInPlace(a, b) ==
    \A d \in 1..2 : b.shape[d] = a.shape[d] \/ b.shape[d] = 1

\* a += b with b broadcast to the shape of a.
AddInPlace(a, b) ==
    Tensor(a.shape,
           [e \in 1..Len(a.data) |->
               LET i == (e - 1) \div a.shape[2]
                   j == (e - 1) % a.shape[2]
                   bi == IF b.shape[1] = 1 THEN 0 ELSE i
                   bj == IF b.shape[2] = 1 THEN 0 ELSE j
               IN  a.data[e] + b.data[bi * b.shape[2] + bj + 1]])

\* Later batches: conflict_mats[k] += torch.mm(data, data^T), k the index
\* of the tracker in average_trackers.
TrackerAccumulate ==
    /\ ev_pc = "tracker" /\ ev_k < Len(average_trackers)
    /\ Len(tracker_x[ev_k + 1].shape) >= 4
    /\ ev_i # 0
    /\ ev_k < Len(conflict_mats)
    /\ AddsInPlace(conflict_mats[ev_k + 1], CoActivation(tracker_x[ev_k + 1]))
    /\ conflict_mats' =
          [conflict_mats EXCEPT ![ev_k + 1] =
              AddInPlace(conflict_mats[ev_k + 1], CoActivation(tracker_x[ev_k + 1]))]
    /\ ev_k' = ev_k + 1
    /\ UNCHANGED <<ev_pc, dataset, batch_size, average_trackers, tracker_x, ev_i,
                   data_shapes, num_samples>>
    /\ UNCHANGED evalFrame

\* Later batches: conflict_mats[k] raises IndexError when the list is
\* shorter, and += raises when the shapes do not fit; evaluate ends there.
TrackerAccumulateRaises ==
    /\ ev_pc = "tracker" /\ ev_k < Len(average_trackers)
    /\ Len(tracker_x[ev_k + 1].shape) >= 4
    /\ ev_i # 0
    /\ \/ ev_k >= Len(conflict_mats)
       \/ /\ ev_k < Len(conflict_mats)
          /\ ~AddsInPlace(conflict_mats[ev_k + 1], CoActivation(tracker_x[ev_k + 1]))
    /\ ev_pc' = "error"
    /\ UNCHANGED <<dataset, batch_size, average_trackers, tracker_x, ev_i, ev_k,
                   conflict_mats, data_shapes, num_samples>>
    /\ UNCHANGED evalFrame

\* The tracker loop of the batch is over.
BatchDone ==
    /\ ev_pc = "tracker" /\ ev_k = Len(average_trackers)
    /\ ev_i' = ev_i + 1
    /\ ev_pc' = "loop"
    /\ UNCHANGED <<dataset, batch_size, average_trackers, tracker_x, ev_k,
                   conflict_mats, data_shapes, num_samples>>
    /\ UNCHANGED evalFrame

\* After the last batch every matrix is normalised and the list returned.
Finalize ==
    /\ ev_pc = "loop" /\ ev_i = NumBatches
    /\ conflict_mats' = [m \in 1..Len(conflict_mats) |->
                            Normalize(conflict_mats[m], data_shapes[m], num_samples)]
    /\ ev_pc' = "done"
    /\ UNCHANGED <<dataset, batch_size, average_trackers, tracker_x, ev_i, ev_k,
                   data_shapes, num_samples>>
    /\ UNCHANGED evalFrame

EvalNext ==
    \/ ModelForward \/ TrackerSkip \/ TrackerFirst \/ TrackerAccumulate
    \/ TrackerAccumulateRaises \/ BatchDone \/ Finalize

-----------------------------------------------------------------------------
(* Properties of evaluate.                                                 *)

\* The trackers with 4-D activations, by their index (from 1) in
\* average_trackers, in list order.
ConvTrackers ==
    LET F[k \in 0..Len(average_trackers)] ==
            IF k = 0 THEN <<>>
            ELSE IF average_trackers[k].nd = 4 THEN Append(F[k - 1], k)
            ELSE F[k - 1]
    IN  F[Len(average_trackers)]

\* The number of (sample, position) instances of the whole dataset at which
\* channels i and j of a layer are both nonzero.
CoActive(layer, i, j) ==
    Cardinality({q \in (1..Len(dataset)) \X (0..(layer.W - 1)) \X (0..(layer.H - 1)) :
                    /\ LayerValue(dataset[q[1]], i, q[2], q[3]) # 0
                    /\ LayerValue(dataset[q[1]], j, q[2], q[3]) # 0})

\* Entry (i, j), counted from 0, of a square matrix.
Entry(mat, i, j) == mat.data[i * mat.shape[2] + j + 1]

\* C4: evaluate returns, for each 4-D tracker and in their order, a
\* matrix whose entry (i,j), i # j, is the number of (sample, position)
\* instances over all batches at which channels i and j are both nonzero,
\* divided by num_samples*W*H, num_samples the number of targets seen; this
\* for any number of batches (one at least) and any order of 4-D and other
\* trackers.
C4_ReturnsCoActivationFractions ==
    /\ ev_pc # "error"
    /\ (ev_pc = "done" /\ Len(dataset) > 0) =>
          /\ num_samples = Len(dataset)
          /\ Len(conflict_mats) = Len(ConvTrackers)
          /\ \A m \in 1..Len(conflict_mats) :
                LET layer == average_trackers[ConvTrackers[m]]
                IN  /\ conflict_mats[m].shape = <<layer.C, layer.C>>
                    /\ \A i, j \in 0..(layer.C - 1) :
                          i # j =>
                             Entry(conflict_mats[m], i, j) =
                                Quot(CoActive(layer, i, j),
                                     num_samples * layer.W * layer.H)

\* C5: every matrix evaluate returns is square and symmetric, has a zero
\* diagonal and has every entry in the range [0,1].
C5_MatricesSymmetricZeroDiagonal ==
    ev_pc = "done" =>
        \A m \in 1..Len(conflict_mats) :
            LET mat == conflict_mats[m]
                C   == mat.shape[1]
            IN  /\ Len(mat.shape) = 2 /\ mat.shape[2] = C
                /\ Len(mat.data) = C * C
                /\ \A i, j \in 0..(C - 1) :
                      /\ Entry(mat, i, j) = Entry(mat, j, i)
                      /\ Entry(mat, i, j)[1] >= 0
                      /\ Entry(mat, i, j)[2] > 0
                      /\ Entry(mat, i, j)[1] <= Entry(mat, i, j)[2]
                      /\ i = j => Entry(mat, i, j)[1] = 0

\* evaluate returned after two batches or more with a matrix of a layer
\* with several channels and positions that has a nonzero entry.
C5_Witness ==
    /\ ev_pc = "done"
    /\ ev_i >= 2
    /\ \E m \in 1..Len(conflict_mats) :
          /\ conflict_mats[m].shape[1] = 2
          /\ data_shapes[m][2] * data_shapes[m][3] >= 2
          /\ Entry(conflict_mats[m], 0, 1)[1] > 0

-----------------------------------------------------------------------------
(* get_conflict_score and first_fit.                                       *)

MaxChannels == 3
MaxColumns == 3
MaxThreshold == 3

\* The entries of a conflict matrix, as whole multiples of one unit of
\* score; the thresholds are multiples of the same unit.
EntryVals == {-1, 0, 2}

\* conflict_mat[i][j] (i, j from 0).
MatAt(mat, i, j) == mat.data[i * mat.shape[2] + j + 1]

\* itertools.combinations(columns, 2): the pairs of elements of the list,
\* the first before the second, in lexicographic order of their places.
Combinations2(columns) ==
    LET n == Len(columns)
        F[e \in 0..(n * n)] ==
            IF e = 0 THEN <<>>
            ELSE LET a == ((e - 1) \div n) + 1
                     b == ((e - 1) % n) + 1
                 IN  IF a < b THEN Append(F[e - 1], <<columns[a], columns[b]>>)
                     ELSE F[e - 1]
    IN  F[n * n]

\* The mutant: the score of the bin as it is, the last of columns (the
\* channel being tried) left out.
GetConflictScoreOfBin(mat, columns) ==
    LET pairs == Combinations2(SubSeq(columns, 1, Len(columns) - 1))
        F[e \in 0..Len(pairs)] ==
            IF e = 0 THEN 0
            ELSE F[e - 1] + MatAt(mat, pairs[e][1], pairs[e][2])
    IN  F[Len(pairs)]

\* get_conflict_score(conflict_mat, columns)
GetConflictScore(mat, columns) ==
    LET pairs == Combinations2(columns)
        F[e \in 0..Len(pairs)] ==
            IF e = 0 THEN 0
            ELSE F[e - 1] + MatAt(mat, pairs[e][1], pairs[e][2])
    IN  F[Len(pairs)]

\* The mutant: a bin counts as full only when it is over the capacity.
BinFullWhenOver(bin_elems, cap) == Len(bin_elems) > cap

\* len(bin_elems) == max_columns
BinFull(bin_elems, cap) == Len(bin_elems) = cap

\* The mutant: a score equal to the threshold is accepted.
AcceptsUpToThreshold(score, limit) == score <= limit

\* conflict_score < max_conflict_score
Accepts(score, limit) == score < limit

\* The mutant: the channel is put at the front of the bin.
BinPrepend(bin_elems, column) == <<column>> \o bin_elems

\* bin_elems.append(column)
BinAppend(bin_elems, column) == Append(bin_elems, column)

\* The square matrices of n channels: symmetric, the diagonal zero, as
\* evaluate leaves them.
ConflictMats(n) ==
    {Tensor(<<n, n>>, [e \in 1..(n * n) |->
                          LET i == (e - 1) \div n
                              j == (e - 1) % n
                          IN  IF i = j THEN 0
                              ELSE IF i < j THEN u[<<i, j>>] ELSE u[<<j, i>>]]) :
        u \in [{q \in (0..(n - 1)) \X (0..(n - 1)) : q[1] < q[2]} -> EntryVals]}

FitIdle ==
    /\ ff_pc = "idle"
    /\ conflict_mat = NoTensor /\ max_conflict_score = 0 /\ max_columns = 1
    /\ bins = <<>> /\ ff_column = 0 /\ ff_b = 0

\* first_fit(conflict_mat, max_conflict_score, max_columns): bins = []
FitInit ==
    /\ ff_pc = "scan"
    /\ \E n \in 0..MaxChannels : conflict_mat \in ConflictMats(n)
    /\ max_conflict_score \in 0..MaxThreshold
    /\ max_columns \in 1..MaxColumns
    /\ bins = <<>> /\ ff_column = 0 /\ ff_b = 0

\* len(conflict_mat)
NumChannels == conflict_mat.shape[1]

\* The inner loop at a full bin: continue.
ScanSkipFull ==
    /\ ff_pc = "scan" /\ ff_column < NumChannels /\ ff_b < Len(bins)
    /\ BinFull(bins[ff_b + 1], max_columns)
    /\ ff_b' = ff_b + 1
    /\ UNCHANGED <<ff_pc, conflict_mat, max_conflict_score, max_columns, bins,
                   ff_column>>
    /\ UNCHANGED fitFrame

\* The inner loop at a bin whose score with the channel is too high.
ScanReject ==
    /\ ff_pc = "scan" /\ ff_column < NumChannels /\ ff_b < Len(bins)
    /\ ~BinFull(bins[ff_b + 1], max_columns)
    /\ ~Accepts(GetConflictScore(conflict_mat, Append(bins[ff_b + 1], ff_column)),
                max_conflict_score)
    /\ ff_b' = ff_b + 1
    /\ UNCHANGED <<ff_pc, conflict_mat, max_conflict_score, max_columns, bins,
                   ff_column>>
    /\ UNCHANGED fitFrame

\* The inner loop at a bin that takes the channel: append and break; the
\* outer loop goes to the next channel.
ScanAccept ==
    /\ ff_pc = "scan" /\ ff_column < NumChannels /\ ff_b < Len(bins)
    /\ ~BinFull(bins[ff_b + 1], max_columns)
    /\ Accepts(GetConflictScore(conflict_mat, Append(bins[ff_b + 1], ff_column)),
               max_conflict_score)
    /\ bins' = [bins EXCEPT ![ff_b + 1] = BinAppend(@, ff_column)]
    /\ ff_column' = ff_column + 1
    /\ ff_b' = 0
    /\ UNCHANGED <<ff_pc, conflict_mat, max_conflict_score, max_columns>>
    /\ UNCHANGED fitFrame

\* The else of the inner loop: no bin took the channel, a new bin is made.
OpenBin ==
    /\ ff_pc = "scan" /\ ff_column < NumChannels /\ ff_b = Len(bins)
    /\ bins' = Append(bins, <<ff_column>>)
    /\ ff_column' = ff_column + 1
    /\ ff_b' = 0
    /\ UNCHANGED <<ff_pc, conflict_mat, max_conflict_score, max_columns>>
    /\ UNCHANGED fitFrame

\* The outer loop is over: return bins.
FitReturn ==
    /\ ff_pc = "scan" /\ ff_column = NumChannels
    /\ ff_pc' = "done"
    /\ UNCHANGED <<conflict_mat, max_conflict_score, max_columns, bins, ff_column,
                   ff_b>>
    /\ UNCHANGED fitFrame

FitNext == ScanSkipFull \/ ScanReject \/ ScanAccept \/ OpenBin \/ FitReturn

-----------------------------------------------------------------------------
(* Properties of first_fit.                                                *)

\* C6: at every point during first_fit and in its result no bin holds more
\* than max_columns channels.
C6_BinsWithinCapacity ==
    \A b \in 1..Len(bins) : Len(bins[b]) <= max_columns

\* first_fit returned with a bin of max_columns >= 2 channels, and a channel
\* of a later bin would have been accepted by that bin on its score: only
\* the capacity kept it out.
C6_Witness ==
    /\ ff_pc = "done" /\ max_columns >= 2
    /\ \E b \in 1..Len(bins) : \E b2 \in (b + 1)..Len(bins) :
          /\ Len(bins[b]) = max_columns
          /\ bins[b2][1] > bins[b][Len(bins[b])]
          /\ GetConflictScore(conflict_mat, Append(bins[b], bins[b2][1]))
                < max_conflict_score

RECURSIVE SumOver(_, _)
SumOver(S, mat) ==
    IF S = {} THEN 0
    ELSE LET q == CHOOSE q \in S : TRUE
         IN  MatAt(mat, q[1], q[2]) + SumOver(S \ {q}, mat)

\* The sum of the matrix entries over the unordered pairs of channels of a
\* bin, each pair taken with the smaller channel first.
PairwiseScore(bin_elems) ==
    LET chans == {bin_elems[p] : p \in 1..Len(bin_elems)}
    IN  SumOver({q \in chans \X chans : q[1] < q[2]}, conflict_mat)

\* C7: every bin that has taken a channel (two channels or more), at the
\* moment it took it and in the result, has a pairwise conflict score
\* strictly below max_conflict_score.
C7_BinScoreBelowThreshold ==
    \A b \in 1..Len(bins) :
        Len(bins[b]) >= 2 => PairwiseScore(bins[b]) < max_conflict_score

\* first_fit returned a bin of two channels or more with a positive score,
\* and a channel that bin rejected on its score sits in a later bin.
C7_Witness ==
    /\ ff_pc = "done"
    /\ \E b \in 1..Len(bins) : \E b2 \in (b + 1)..Len(bins) :
          /\ Len(bins[b]) >= 2
          /\ PairwiseScore(bins[b]) > 0
          /\ Len(bins[b]) < max_columns
          /\ bins[b2][1] > bins[b][Len(bins[b])]
          /\ PairwiseScore(Append(bins[b], bins[b2][1])) >= max_conflict_score

\* A bin can take a channel: it is not at max_columns and its pairwise
\* score with the channel added is below max_conflict_score.
FitsIn(bin_elems, column) ==
    /\ Len(bin_elems) # max_columns
    /\ PairwiseScore(Append(bin_elems, column)) < max_conflict_score

\* One step of first_fit as the claim allows it: bins only grow at their
\* ends, and a step that changes bins places the one channel in hand, in the
\* first bin in creation order that can take it, or in a new bin at the end
\* when no bin can.
FirstFitStep ==
    /\ Len(bins') >= Len(bins)
    /\ \A b \in 1..Len(bins) :
          /\ Len(bins'[b]) >= Len(bins[b])
          /\ SubSeq(bins'[b], 1, Len(bins[b])) = bins[b]
    /\ (ff_column' # ff_column) <=> (bins' # bins)
    /\ bins' # bins =>
          /\ ff_column' = ff_column + 1
          /\ \/ \E b \in 1..Len(bins) :
                   /\ bins' = [bins EXCEPT ![b] = Append(@, ff_column)]
                   /\ FitsIn(bins[b], ff_column)
                   /\ \A b2 \in 1..(b - 1) : ~FitsIn(bins[b2], ff_column)
             \/ /\ bins' = Append(bins, <<ff_column>>)
                /\ \A b2 \in 1..Len(bins) : ~FitsIn(bins[b2], ff_column)

\* C11: first_fit takes the channels one at a time, puts each into the first
\* bin in creation order that is not at max_columns and whose score with the
\* channel added is below max_conflict_score, opens a new bin of that one
\* channel only when no bin can take it, and never moves or removes a
\* channel it has placed.
C11_FirstBinThatFits == [][FirstFitStep]_vars

\* first_fit returned with a second bin of two channels: the first bin
\* turned both away before the second took the later one, and the second
\* bin was opened because the first could not take its channel.
C11_Witness ==
    /\ ff_pc = "done"
    /\ Len(bins) >= 2 /\ Len(bins[2]) >= 2
    /\ \A p \in 1..2 :
          ~FitsIn(SelectSeq(bins[1], LAMBDA c : c < bins[2][p]), bins[2][p])

\* The places of the bins: <<b, p>> is place p of bin b.
BinPlaces == {q \in (1..Len(bins)) \X (1..MaxChannels) : q[2] <= Len(bins[q[1]])}

\* C15: the bins of first_fit are a partition of the channels taken so far,
\* in the result of all channels 0..n-1: every channel is in exactly one
\* place of one bin, no bin is empty, the channels of a bin are strictly
\* increasing and the bins are in increasing order of their first channel;
\* with max_conflict_score = 0 and no negative entry every bin is a single
\* channel.
C15_BinsPartitionChannels ==
    ff_pc # "idle" =>
        /\ ff_pc = "done" => ff_column = NumChannels
        /\ \A b \in 1..Len(bins) : Len(bins[b]) >= 1 /\ Len(bins[b]) <= MaxChannels
        /\ \A q \in BinPlaces : bins[q[1]][q[2]] \in 0..(ff_column - 1)
        /\ \A c \in 0..(ff_column - 1) :
              Cardinality({q \in BinPlaces : bins[q[1]][q[2]] = c}) = 1
        /\ \A b \in 1..Len(bins) : \A p \in 1..(Len(bins[b]) - 1) :
              bins[b][p] < bins[b][p + 1]
        /\ \A b \in 1..(Len(bins) - 1) : bins[b][1] < bins[b + 1][1]
        /\ (/\ max_conflict_score = 0
            /\ \A e \in 1..Len(conflict_mat.data) : conflict_mat.data[e] >= 0) =>
              \A b \in 1..Len(bins) : bins[b] = <<b - 1>>

\* first_fit returned, for three channels, the first and the third in one
\* bin and the second in a bin of its own.
C15_Witness ==
    /\ ff_pc = "done"
    /\ NumChannels = 3
    /\ bins = <<<<0, 2>>, <<1>>>>

-----------------------------------------------------------------------------
(* AverageMeter: reset() and update(val, n=1).                             *)

MaxUpdates == 3
MaxWeight == 2
MeterVals == {-1, 0, 10, 20}

\* The mutant: the weight n is left out of the sum.
UpdatedSumUnweighted(s, v, n) == s + v

\* self.sum += val * n
UpdatedSum(s, v, n) == s + v * n

\* self.count += n
UpdatedCount(c, n) == c + n

MeterIdle ==
    /\ meter_val = 0 /\ meter_avg = <<0, 1>> /\ meter_sum = 0 /\ meter_count = 0
    /\ updates = <<"idle">>

\* AverageMeter(): __init__ calls reset().
MeterInit ==
    /\ meter_val = 0 /\ meter_avg = Quot(0, 1) /\ meter_sum = 0 /\ meter_count = 0
    /\ updates = <<>>

\* reset()
MeterReset ==
    /\ meter_val' = 0
    /\ meter_avg' = Quot(0, 1)
    /\ meter_sum' = 0
    /\ meter_count' = 0
    /\ updates' = <<>>
    /\ UNCHANGED meterFrame

\* update(val, n) with a positive weight n.
MeterUpdate ==
    /\ Len(updates) < MaxUpdates
    /\ \E v \in MeterVals : \E n \in 1..MaxWeight :
          /\ meter_val' = v
          /\ meter_sum' = UpdatedSum(meter_sum, v, n)
          /\ meter_count' = UpdatedCount(meter_count, n)
          /\ meter_avg' = Quot(UpdatedSum(meter_sum, v, n), UpdatedCount(meter_count, n))
          /\ updates' = Append(updates, <<v, n>>)
    /\ UNCHANGED meterFrame

MeterNext == MeterReset \/ MeterUpdate

\* C8: after construction or reset() followed by update(v_i, n_i) calls
\* with positive weights, val is the last v, sum the sum of v_i*n_i, count
\* the sum of n_i and avg is sum/count; after reset() alone all four are 0;
\* update(10,2), update(20,1) give sum 40, count 3, avg 40/3.
C8_MeterTracksWeightedMean ==
    /\ updates = <<>> =>
          /\ meter_val = 0 /\ meter_sum = 0 /\ meter_count = 0
          /\ meter_avg[1] = 0
    /\ updates # <<>> =>
          /\ meter_val = updates[Len(updates)][1]
          /\ meter_sum = SumSeq([e \in 1..Len(updates) |-> updates[e][1] * updates[e][2]])
          /\ meter_count = SumSeq([e \in 1..Len(updates) |-> updates[e][2]])
          /\ meter_avg[1] * meter_count = meter_sum * meter_avg[2]
          /\ meter_avg[2] > 0
    /\ updates = <<<<10, 2>>, <<20, 1>>>> =>
          /\ meter_sum = 40 /\ meter_count = 3 /\ meter_avg = <<40, 3>>

\* The meter after update(10, 2) and update(20, 1).
C8_Witness ==
    /\ updates = <<<<10, 2>>, <<20, 1>>>>
    /\ meter_val = 20 /\ meter_sum = 40 /\ meter_count = 3

-----------------------------------------------------------------------------
(* The checkpoint load: the keys of the state_dict are normalised.         *)

MaxKeys == 2

\* Names are sequences of characters.
ModuleDot == <<"m", "o", "d", "u", "l", "e", ".">>

\* The names tried: module.c.w, c.w, c.module.w, module.module.w,
\* modmodule.ule.w, module, xmodule.w and w.
CkptKeys ==
    { ModuleDot \o <<"c", ".", "w">>,
      <<"c", ".", "w">>,
      <<"c", ".">> \o ModuleDot \o <<"w">>,
      ModuleDot \o ModuleDot \o <<"w">>,
      <<"m", "o", "d">> \o ModuleDot \o <<"u", "l", "e", ".", "w">>,
      <<"m", "o", "d", "u", "l", "e">>,
      <<"x">> \o ModuleDot \o <<"w">>,
      <<"w">> }

\* Whether old occurs in key at place i (from 1).
OccursAt(key, old, i) ==
    /\ i + Len(old) - 1 <= Len(key)
    /\ SubSeq(key, i, i + Len(old) - 1) = old

\* old in key
Contains(key, old) == \E i \in 1..Len(key) : OccursAt(key, old, i)

\* The mutant: only the first occurrence is removed.
RemoveFirst(key, old) ==
    IF ~Contains(key, old) THEN key
    ELSE LET i == CHOOSE i \in 1..Len(key) :
                     /\ OccursAt(key, old, i)
                     /\ \A j \in 1..(i - 1) : ~OccursAt(key, old, j)
         IN  SubSeq(key, 1, i - 1) \o SubSeq(key, i + Len(old), Len(key))

\* key.replace(old, ''): the occurrences of old, found from the left and not
\* overlapping, are removed in one pass.
RECURSIVE RemoveAll(_, _)
RemoveAll(key, old) ==
    IF Len(key) < Len(old) THEN key
    ELSE IF SubSeq(key, 1, Len(old)) = old
         THEN RemoveAll(SubSeq(key, Len(old) + 1, Len(key)), old)
         ELSE <<Head(key)>> \o RemoveAll(Tail(key), old)

\* The name a key is stored under.
NewKey(key) ==
    IF Contains(key, ModuleDot) THEN RemoveAll(key, ModuleDot) ELSE key

\* d[key] = value on a dict kept as <<key, value>> pairs in insertion
\* order: a key already there keeps its place and gets the value.
DictPut(d, key, value) ==
    IF \E e \in 1..Len(d) : d[e][1] = key
    THEN [e \in 1..Len(d) |-> IF d[e][1] = key THEN <<key, value>> ELSE d[e]]
    ELSE Append(d, <<key, value>>)

CkptIdle ==
    /\ ck_pc = "idle" /\ tmp_state_dict = <<>> /\ state_dict = <<>> /\ ck_n = 0

\* The checkpoints: up to MaxKeys different keys, the value of the e-th key
\* is the tensor e.
CkptInit ==
    /\ ck_pc = "loop"
    /\ \E ks \in SeqsUpTo(CkptKeys, MaxKeys) :
          /\ \A a, b \in 1..Len(ks) : a # b => ks[a] # ks[b]
          /\ tmp_state_dict = [e \in 1..Len(ks) |-> <<ks[e], e>>]
    /\ state_dict = <<>> /\ ck_n = 0

\* One turn of the loop over tmp_state_dict.keys().
LoadKey ==
    /\ ck_pc = "loop" /\ ck_n < Len(tmp_state_dict)
    /\ LET key == tmp_state_dict[ck_n + 1][1]
       IN  state_dict' = DictPut(state_dict, NewKey(key), tmp_state_dict[ck_n + 1][2])
    /\ ck_n' = ck_n + 1
    /\ UNCHANGED <<ck_pc, tmp_state_dict>>
    /\ UNCHANGED ckptFrame

\* The loop is over: state_dict = OrderedDict(state_dict).
LoadDone ==
    /\ ck_pc = "loop" /\ ck_n = Len(tmp_state_dict)
    /\ ck_pc' = "done"
    /\ UNCHANGED <<tmp_state_dict, state_dict, ck_n>>
    /\ UNCHANGED ckptFrame

CkptNext == LoadKey \/ LoadDone

-----------------------------------------------------------------------------
(* Properties of the checkpoint load.                                      *)

\* Whether the dict has the key, and the value it holds for it.
DictHas(d, key) == \E e \in 1..Len(d) : d[e][1] = key
DictGet(d, key) == d[CHOOSE e \in 1..Len(d) : d[e][1] = key][2]

HasModulePrefix(key) == OccursAt(key, ModuleDot, 1)

\* C9 as stated: a key with the module. prefix is stored under the name
\* without that prefix, its value unchanged, and every key that does not
\* start with the prefix is stored under exactly its own name.
C9_PrefixStrippedOthersKept ==
    ck_pc = "done" =>
        \A e \in 1..Len(tmp_state_dict) :
            LET key  == tmp_state_dict[e][1]
                name == IF HasModulePrefix(key)
                        THEN SubSeq(key, Len(ModuleDot) + 1, Len(key))
                        ELSE key
            IN  /\ DictHas(state_dict, name)
                /\ DictGet(state_dict, name) = tmp_state_dict[e][2]

\* The key with every occurrence of module. taken out, the occurrences
\* found from the left, one after the other.
Stripped(key) ==
    LET F[i \in 1..(Len(key) + 1)] ==
            IF i > Len(key) THEN <<>>
            ELSE IF OccursAt(key, ModuleDot, i) THEN F[i + Len(ModuleDot)]
            ELSE <<key[i]>> \o F[i + 1]
    IN  F[1]

\* C9, amended: a key that holds module. anywhere, as a prefix or further
\* in, is stored under the name with every occurrence of module. removed
\* (so module.conv1.weight goes to conv1.weight), and a key that holds no
\* module. is stored under exactly its own name; the names stored are these
\* and no others, and the value under a name is the unchanged value of the
\* last key, in the order of the checkpoint, that goes to that name.
C9_EveryOccurrenceStripped ==
    ck_pc = "done" =>
        /\ \A e \in 1..Len(tmp_state_dict) :
              LET key == tmp_state_dict[e][1]
                  last == CHOOSE l \in 1..Len(tmp_state_dict) :
                             /\ Stripped(tmp_state_dict[l][1]) = Stripped(key)
                             /\ \A l2 \in (l + 1)..Len(tmp_state_dict) :
                                   Stripped(tmp_state_dict[l2][1]) # Stripped(key)
              IN  /\ DictHas(state_dict, Stripped(key))
                  /\ DictGet(state_dict, Stripped(key)) = tmp_state_dict[last][2]
                  /\ ~Contains(key, ModuleDot) => DictHas(state_dict, key)
        /\ \A d \in 1..Len(state_dict) :
              /\ \E e \in 1..Len(tmp_state_dict) :
                    state_dict[d][1] = Stripped(tmp_state_dict[e][1])
              /\ \A d2 \in 1..Len(state_dict) :
                    d # d2 => state_dict[d][1] # state_dict[d2][1]

\* The checkpoint held module.c.w and then c.module.w: both went to c.w,
\* which holds the value of the second.
C9_Witness ==
    /\ ck_pc = "done"
    /\ tmp_state_dict = << <<ModuleDot \o <<"c", ".", "w">>, 1>>,
                           <<<<"c", ".">> \o ModuleDot \o <<"w">>, 2>> >>
    /\ state_dict = << <<<<"c", ".", "w">>, 2>> >>

-----------------------------------------------------------------------------
(* get_term_count(model, quant_func, minlength).                           *)

MaxCells == 4
ActVals == {1, 7}

\* The weights tried, in units of the scale factor: a constant one, one with
\* every other weight zero and a ramp through zero.
WeightDatas(n) == {[e \in 1..n |-> -3],
                   [e \in 1..n |-> IF e % 2 = 1 THEN 5 ELSE 0],
                   [e \in 1..n |-> e - 2]}

Abs(q) == IF q < 0 THEN -q ELSE q

\* booth.num_binary_terms on one quantized value: the nonzero binary digits
\* of its magnitude.
RECURSIVE BinaryDigits(_)
BinaryDigits(q) == IF q = 0 THEN 0 ELSE (q % 2) + BinaryDigits(q \div 2)

NumBinaryTerms(q) == BinaryDigits(Abs(q))

\* booth.num_hese_terms on one quantized value: the nonzero digits of the
\* signed-digit form of its magnitude in which runs of ones are merged.
RECURSIVE SignedDigits(_)
SignedDigits(q) ==
    IF q = 0 THEN 0
    ELSE IF q % 2 = 0 THEN SignedDigits(q \div 2)
    ELSE IF q % 4 = 1 THEN 1 + SignedDigits((q - 1) \div 2)
    ELSE 1 + SignedDigits((q + 1) \div 2)

NumHeseTerms(q) == SignedDigits(Abs(q))

\* func(t, scale) on a tensor: the same shape, the term count of each value.
TermCounts(func, t) ==
    Tensor(t.shape,
           [n \in 1..Len(t.data) |->
               IF func = "hese" THEN NumHeseTerms(t.data[n])
               ELSE NumBinaryTerms(t.data[n])])

\* The mutant: the rows are cut from x as it lies in memory (B,C,W,H).
ActivationRowsNoPermute(x) ==
    View(x, <<x.shape[1] * x.shape[3] * x.shape[4], x.shape[2]>>)

\* x.permute(0, 2, 3, 1).contiguous().view(-1, C)
ActivationRows(x) ==
    View(PermuteContiguous(x, <<1, 3, 4, 2>>),
         <<x.shape[1] * x.shape[3] * x.shape[4], x.shape[2]>>)

\* m[:, start:end] of a 2-D tensor.
Columns(mat, start, end) ==
    LET n == mat.shape[1]
        c == end - start
    IN  Tensor(<<n, c>>,
               [e \in 1..(n * c) |->
                   mat.data[((e - 1) \div c) * mat.shape[2] + start + ((e - 1) % c) + 1]])

\* np.bincount(all_res) and np.bincount(all_res, minlength=n): element v
\* (from 0) is the number of entries equal to v.
Bincount(res, minlen) ==
    LET top == IF res = <<>> THEN 0 ELSE Max({res[e] : e \in 1..Len(res)}) + 1
        len == IF minlen # <<>> /\ minlen[1] > top THEN minlen[1] ELSE top
    IN  [v \in 1..len |-> Cardinality({e \in 1..Len(res) : res[e] = v - 1})]

TermIdle ==
    /\ tc_pc = "idle" /\ tc_x = NoTensor /\ tc_w = NoTensor
    /\ quant_func = "binary" /\ minlength = <<>> /\ tc_group_size = 1
    /\ all_res = <<>> /\ tc_i = 0 /\ tc_hist = <<>>

\* The captured activation (B,C,W,H), the weight (F,C,1,1) of the 1x1
\* convolution behind it, the encoding, the padding and the group size.
TermInit ==
    /\ tc_pc = "loop"
    /\ \E s \in Shapes : \E F \in 1..MaxCells :
          /\ F * s[2] <= MaxCells
          /\ \E d \in [1..Numel(s) -> ActVals] : tc_x = Tensor(s, d)
          /\ \E d \in WeightDatas(F * s[2]) : tc_w = Tensor(<<F, s[2], 1, 1>>, d)
          /\ tc_group_size \in 1..s[2]
    /\ quant_func \in {"hese", "binary"}
    /\ minlength \in {<<>>, <<12>>}
    /\ all_res = <<>> /\ tc_i = 0 /\ tc_hist = <<>>

\* One turn of the loop over the channel groups: the term counts of the
\* group's activations times those of the group's weights, appended to
\* all_res.
GroupStep ==
    /\ tc_pc = "loop" /\ tc_i < tc_x.shape[2] \div tc_group_size
    /\ LET C       == tc_x.shape[2]
           F       == tc_w.shape[1]
           x_terms == TermCounts(quant_func, ActivationRows(tc_x))
           w_terms == TermCounts(quant_func, View(tc_w, <<F, C>>))
           start   == tc_i * tc_group_size
           end     == (tc_i + 1) * tc_group_size
           res     == Mm(Columns(x_terms, start, end),
                         Transpose(Columns(w_terms, start, end)))
       IN  all_res' = all_res \o res.data
    /\ tc_i' = tc_i + 1
    /\ UNCHANGED <<tc_pc, tc_x, tc_w, quant_func, minlength, tc_group_size, tc_hist>>
    /\ UNCHANGED termFrame

\* After the loop: the histogram of all_res is returned.
Histogram ==
    /\ tc_pc = "loop" /\ tc_i = tc_x.shape[2] \div tc_group_size
    /\ tc_hist' = Bincount(all_res, minlength)
    /\ tc_pc' = "done"
    /\ UNCHANGED <<tc_x, tc_w, quant_func, minlength, tc_group_size, all_res, tc_i>>
    /\ UNCHANGED termFrame

TermNext == GroupStep \/ Histogram

\* The term count of a value under the encoding in use.
TermsOf(q) == IF quant_func = "hese" THEN NumHeseTerms(q) ELSE NumBinaryTerms(q)

\* C10: the bin counts of the histogram sum to (B*W*H) * F * (C /
\* group_size), the quotient rounded down when group_size does not divide C,
\* for either encoding and with or without minlength; the value histogrammed
\* for group i, instance position (b,w,h) and filter f is the sum over the
\* channels of the group of the activation's term count times the weight's.
C10_HistogramCountsTermPairs ==
    tc_pc = "done" =>
        LET B == tc_x.shape[1]
            C == tc_x.shape[2]
            W == tc_x.shape[3]
            H == tc_x.shape[4]
            F == tc_w.shape[1]
            g == tc_group_size
            N == B * W * H
        IN  /\ SumSeq(tc_hist) = N * F * (C \div g)
            /\ Len(all_res) = N * F * (C \div g)
            /\ \A v \in 1..Len(tc_hist) :
                  tc_hist[v] = Cardinality({e \in 1..Len(all_res) : all_res[e] = v - 1})
            /\ \A e \in 1..Len(all_res) : all_res[e] + 1 <= Len(tc_hist)
            /\ minlength # <<>> => Len(tc_hist) >= minlength[1]
            /\ \A i \in 0..((C \div g) - 1) : \A b \in 0..(B - 1) :
               \A w \in 0..(W - 1) : \A h \in 0..(H - 1) : \A f \in 0..(F - 1) :
                  all_res[i * N * F + ((b * W + w) * H + h) * F + f + 1] =
                     SumSeq([j \in 1..g |->
                                TermsOf(ElemAt(tc_x, b, i * g + j - 1, w, h)) *
                                TermsOf(tc_w.data[f * C + i * g + j])])

\* The histogram of a layer with two channels in one group, two positions
\* and two filters was returned, padded, with different values in it.
C10_Witness ==
    /\ tc_pc = "done"
    /\ tc_x.shape[2] = 2 /\ tc_group_size = 2
    /\ tc_x.shape[1] * tc_x.shape[3] * tc_x.shape[4] = 2
    /\ tc_w.shape[1] = 2
    /\ minlength # <<>>
    /\ Len(all_res) = 4
    /\ \E e \in 1..4 : all_res[e] # all_res[1]
    /\ SumSeq(tc_hist) = 4

-----------------------------------------------------------------------------
(* AverageTracker: forward(x) and channel_zeros().                         *)

MaxCalls == 2
MaxBatch == 2

\* Per-sample shapes: a fully connected layer of two features and a
\* convolutional layer (C, W, H) of two channels of two positions.
TrackShapes == {<<2>>, <<2, 2, 1>>}

\* The samples tried, after a ReLU: every other value zero, a ramp from zero
\* and all ones.
SampleDatas(n) == {[e \in 1..n |-> IF e % 2 = 1 THEN 0 ELSE 2],
                   [e \in 1..n |-> e - 1],
                   [e \in 1..n |-> 1]}

\* The batches of b samples of a per-sample shape.
Batches(shape, b) ==
    LET n == Numel(shape)
    IN  {Tensor(<<b>> \o shape,
                [e \in 1..(b * n) |-> samples[((e - 1) \div n) + 1][((e - 1) % n) + 1]]) :
            samples \in [1..b -> SampleDatas(n)]}

\* torch.zeros(size)
Zeros(shape) == Tensor(shape, [e \in 1..Numel(shape) |-> 0])

\* The mutant: only the first sample of the batch is taken.
SumDim0FirstOnly(x) ==
    Tensor(Tail(x.shape), [e \in 1..Numel(Tail(x.shape)) |-> x.data[e]])

\* x.sum(0)
SumDim0(x) ==
    LET n == Numel(Tail(x.shape))
    IN  Tensor(Tail(x.shape),
               [e \in 1..n |->
                   SumSeq([b \in 1..x.shape[1] |-> x.data[(b - 1) * n + e]])])

\* (x == 0).float()
IsZero(x) ==
    Tensor(x.shape, [e \in 1..Len(x.data) |-> IF x.data[e] = 0 THEN 1 ELSE 0])

\* a += b on tensors of one shape.
TensorSum(a, b) ==
    Tensor(a.shape, [e \in 1..Len(a.data) |-> a.data[e] + b.data[e]])

NoOutcome == [kind |-> "none", val |-> <<>>]

\* channel_zeros(): C, W, H = self.zeros.shape needs the attribute and three
\* dimensions; then zeros.sum((1, 2)) / float(W*H*count), one fraction per
\* channel.
ChannelZerosOutcome(zeros, count) ==
    IF zeros = NoTensor THEN [kind |-> "AttributeError", val |-> <<>>]
    ELSE IF Len(zeros.shape) # 3 THEN [kind |-> "ValueError", val |-> <<>>]
    ELSE LET C  == zeros.shape[1]
             WH == zeros.shape[2] * zeros.shape[3]
         IN  [kind |-> "value",
              val  |-> [c \in 1..C |->
                          Quot(SumSeq([q \in 1..WH |-> zeros.data[(c - 1) * WH + q]]),
                               WH * count)]]

TrackIdle ==
    /\ at_shape = <<>> /\ at_count = 0
    /\ at_data = NoTensor /\ at_zeros = NoTensor /\ at_x = NoTensor
    /\ at_ret = NoTensor /\ at_seen = <<"idle">> /\ at_cz = NoOutcome

\* AverageTracker(): count = 0, the buffers data and x are None.
TrackInit ==
    /\ at_shape \in TrackShapes
    /\ at_count = 0
    /\ at_data = NoTensor /\ at_zeros = NoTensor /\ at_x = NoTensor
    /\ at_ret = NoTensor /\ at_seen = <<>> /\ at_cz = NoOutcome

\* forward(x) on a batch of the place's per-sample shape.
TrackForward ==
    /\ Len(at_seen) < MaxCalls
    /\ \E b \in 1..MaxBatch : \E x \in Batches(at_shape, b) :
          LET data0  == IF at_data = NoTensor THEN Zeros(Tail(x.shape)) ELSE at_data
              zeros0 == IF at_data = NoTensor THEN Zeros(Tail(x.shape)) ELSE at_zeros
          IN  /\ at_x' = x
              /\ at_data' = TensorSum(data0, SumDim0(x))
              /\ at_count' = at_count + x.shape[1]
              /\ at_zeros' = TensorSum(zeros0, SumDim0(IsZero(x)))
              /\ at_ret' = x
              /\ at_seen' = Append(at_seen, x)
    /\ at_cz' = NoOutcome
    /\ UNCHANGED at_shape
    /\ UNCHANGED trackFrame

\* channel_zeros() on the tracker as it is.
TrackChannelZeros ==
    /\ at_cz = NoOutcome
    /\ at_cz' = ChannelZerosOutcome(at_zeros, at_count)
    /\ UNCHANGED <<at_shape, at_count, at_data, at_zeros, at_x, at_ret, at_seen>>
    /\ UNCHANGED trackFrame

TrackNext == TrackForward \/ TrackChannelZeros

-----------------------------------------------------------------------------
(* Properties of AverageTracker.                                           *)

\* The value at position e (from 1) of sample b of the batch seen i-th.
SeenAt(i, b, e) == at_seen[i].data[(b - 1) * Numel(at_shape) + e]

\* The samples seen so far: the pairs of a batch and a place in it.
SeenSamples ==
    {q \in (1..Len(at_seen)) \X (1..MaxBatch) : q[2] <= at_seen[q[1]].shape[1]}

RECURSIVE SeenSum(_, _)
SeenSum(S, e) ==
    IF S = {} THEN 0
    ELSE LET q == CHOOSE q \in S : TRUE
         IN  SeenAt(q[1], q[2], e) + SeenSum(S \ {q}, e)

\* The number of samples seen whose value at position e is exactly 0.
SeenZeros(e) == Cardinality({q \in SeenSamples : SeenAt(q[1], q[2], e) = 0})

\* What forward keeps, stated on the batches seen: nothing before the first
\* call; after it count is the number of samples, data the per-position
\* sum, zeros the per-position number of zero values, between 0 and count,
\* x the latest batch, which is also what the call returned.
TrackerAccumulates ==
    /\ at_seen = <<>> =>
          /\ at_count = 0 /\ at_data = NoTensor /\ at_x = NoTensor
    /\ at_seen # <<>> =>
          /\ at_count = Cardinality(SeenSamples)
          /\ at_data.shape = at_shape /\ at_zeros.shape = at_shape
          /\ \A e \in 1..Numel(at_shape) :
                /\ at_data.data[e] = SeenSum(SeenSamples, e)
                /\ at_zeros.data[e] = SeenZeros(e)
                /\ 0 <= at_zeros.data[e] /\ at_zeros.data[e] <= at_count
          /\ at_x = at_seen[Len(at_seen)]
          /\ at_ret = at_seen[Len(at_seen)]

\* A fraction <<n, d>> lies in [0, 1].
InUnitInterval(q) == 0 <= q[1] /\ q[1] <= q[2] /\ q[2] > 0

\* C12 as stated: after any forward calls on batches of one per-sample
\* shape, count, data, zeros, x and the returned value are as the batches
\* seen say, and channel_zeros() is a tensor of values in [0, 1].
C12_TrackerAccumulatesAnyShape ==
    at_shape # <<>> =>
        /\ TrackerAccumulates
        /\ (at_seen # <<>> /\ at_cz # NoOutcome) =>
              /\ at_cz.kind = "value"
              /\ \A c \in 1..Len(at_cz.val) : InUnitInterval(at_cz.val[c])

\* C12: after any forward calls on batches of one per-sample shape, count,
\* data, zeros, x and the returned value are as the batches seen say; when
\* the per-sample shape is (C, W, H), channel_zeros() gives for each channel
\* the fraction, in [0, 1], of zero values among the W*H*count values seen
\* in that channel, and for any other per-sample shape it raises ValueError.
C12_TrackerAccumulatesChannelZeros3D ==
    at_shape # <<>> =>
        /\ TrackerAccumulates
        /\ (at_seen # <<>> /\ at_cz # NoOutcome) =>
              IF Len(at_shape) = 3
              THEN LET WH == at_shape[2] * at_shape[3]
                   IN  /\ at_cz.kind = "value"
                       /\ Len(at_cz.val) = at_shape[1]
                       /\ \A c \in 1..at_shape[1] :
                             /\ InUnitInterval(at_cz.val[c])
                             /\ at_cz.val[c][1] * (WH * at_count) =
                                   at_cz.val[c][2] *
                                   SumSeq([q \in 1..WH |-> SeenZeros((c - 1) * WH + q)])
              ELSE at_cz.kind = "ValueError"

\* Two calls, the second on a batch of two samples, at a place with two
\* channels of two positions each; channel_zeros() then gave a fraction
\* strictly between 0 and 1.
C12_Witness ==
    /\ at_shape = <<2, 2, 1>>
    /\ Len(at_seen) = 2
    /\ at_seen[2].shape[1] = 2
    /\ at_seen[2].data # at_seen[1].data
    /\ at_cz.kind = "value"
    /\ \E c \in 1..2 : 0 < at_cz.val[c][1] /\ at_cz.val[c][1] < at_cz.val[c][2]

-----------------------------------------------------------------------------
(* train(model, train_loader, optimizer, epoch, loss).                     *)

MaxTrainBatches == 2
MaxNumSamples == 3

\* The batches a loader can deliver: one or two samples, a loss of 0, 1 or
\* 3 units.
TrainBatches == [size : {1, 2}, loss : {0, 1, 3}]

NewMeter == [val |-> 0, sum |-> 0, count |-> 0, avg |-> Quot(0, 1)]

\* AverageMeter.update(val, n) on a meter.
MeterUpdated(meter, v, n) ==
    [val   |-> v,
     sum   |-> UpdatedSum(meter.sum, v, n),
     count |-> UpdatedCount(meter.count, n),
     avg   |-> Quot(UpdatedSum(meter.sum, v, n), UpdatedCount(meter.count, n))]

\* The mutant: zero_grad leaves the gradients as they are.
GradsKept(grads) == grads

\* optimizer.zero_grad(): no batch's gradients are left.
GradsZeroed(grads) == <<>>

\* A call on the optimizer, the model or the loss, made while batch i (from
\* 1; 0 when no batch is in hand) is processed, with the gradients there.
Event(op, i, grads) == [op |-> op, batch |-> i, grads |-> grads]

TrainIdle ==
    /\ tr_pc = "idle" /\ train_loader = <<>> /\ tr_num_samples = 1
    /\ tr_training = FALSE /\ tr_i = 0 /\ tr_batchsize = 0
    /\ tr_grads = <<>> /\ tr_prediction = 0 /\ tr_loss_value = 0
    /\ model_loss = 0 /\ loss_meter = NewMeter /\ time_updates = <<0, 0>>
    /\ tr_events = <<>> /\ tr_ret = <<>>

\* The call of train: a loader, its num_samples, and parameters whose
\* .grad is clear or holds gradients from before.
TrainInit ==
    /\ tr_pc = "enter"
    /\ \E n \in 0..MaxTrainBatches : train_loader \in [1..n -> TrainBatches]
    /\ tr_num_samples \in 1..MaxNumSamples
    /\ tr_grads \in {<<>>, <<0>>}
    /\ tr_training = FALSE /\ tr_i = 0 /\ tr_batchsize = 0
    /\ tr_prediction = 0 /\ tr_loss_value = 0
    /\ model_loss = 0 /\ loss_meter = NewMeter /\ time_updates = <<0, 0>>
    /\ tr_events = <<>> /\ tr_ret = <<>>

\* Lines 41-49: the meters, model.train(), loss.train(), model_loss = 0.
TrainEnter ==
    /\ tr_pc = "enter"
    /\ tr_training' = TRUE
    /\ model_loss' = 0 /\ loss_meter' = NewMeter /\ time_updates' = <<0, 0>>
    /\ tr_pc' = "fetch"
    /\ UNCHANGED <<train_loader, tr_num_samples, tr_i, tr_batchsize, tr_grads,
                   tr_prediction, tr_loss_value, tr_events, tr_ret>>
    /\ UNCHANGED trainFrame

\* Lines 50-55: the loader delivers the next batch; batchsize, data_time.
TrainFetch ==
    /\ tr_pc = "fetch" /\ tr_i < Len(train_loader)
    /\ tr_batchsize' = train_loader[tr_i + 1].size
    /\ time_updates' = <<time_updates[1] + 1, time_updates[2]>>
    /\ tr_pc' = "zero_grad"
    /\ UNCHANGED <<train_loader, tr_num_samples, tr_training, tr_i, tr_grads,
                   tr_prediction, tr_loss_value, model_loss, loss_meter, tr_events,
                   tr_ret>>
    /\ UNCHANGED trainFrame

\* Line 56: optimizer.zero_grad()
TrainZeroGrad ==
    /\ tr_pc = "zero_grad"
    /\ tr_grads' = GradsZeroed(tr_grads)
    /\ tr_events' = Append(tr_events, Event("zero_grad", tr_i + 1, tr_grads))
    /\ tr_pc' = "forward"
    /\ UNCHANGED <<train_loader, tr_num_samples, tr_training, tr_i, tr_batchsize,
                   tr_prediction, tr_loss_value, model_loss, loss_meter,
                   time_updates, tr_ret>>
    /\ UNCHANGED trainFrame

\* Line 57: prediction = data_parallel(model, data)
TrainForward ==
    /\ tr_pc = "forward"
    /\ tr_prediction' = tr_i + 1
    /\ tr_events' = Append(tr_events, Event("forward", tr_i + 1, tr_grads))
    /\ tr_pc' = "loss"
    /\ UNCHANGED <<train_loader, tr_num_samples, tr_training, tr_i, tr_batchsize,
                   tr_grads, tr_loss_value, model_loss, loss_meter, time_updates,
                   tr_ret>>
    /\ UNCHANGED trainFrame

\* Lines 58-63: loss_output = loss(prediction, target); loss_value is the
\* output or, of a tuple, its first part.
TrainLoss ==
    /\ tr_pc = "loss"
    /\ tr_loss_value' = train_loader[tr_prediction].loss
    /\ tr_events' = Append(tr_events, Event("loss", tr_prediction, tr_grads))
    /\ tr_pc' = "backward"
    /\ UNCHANGED <<train_loader, tr_num_samples, tr_training, tr_i, tr_batchsize,
                   tr_grads, tr_prediction, model_loss, loss_meter, time_updates,
                   tr_ret>>
    /\ UNCHANGED trainFrame

\* Line 64: loss_value.backward() adds the batch's gradients to .grad.
TrainBackward ==
    /\ tr_pc = "backward"
    /\ tr_grads' = Append(tr_grads, tr_prediction)
    /\ tr_events' = Append(tr_events, Event("backward", tr_prediction, tr_grads))
    /\ tr_pc' = "step"
    /\ UNCHANGED <<train_loader, tr_num_samples, tr_training, tr_i, tr_batchsize,
                   tr_prediction, tr_loss_value, model_loss, loss_meter,
                   time_updates, tr_ret>>
    /\ UNCHANGED trainFrame

\* Lines 66-68: model_loss, loss_meter, optimizer.step().
TrainStep ==
    /\ tr_pc = "step"
    /\ model_loss' = model_loss + tr_batchsize * tr_loss_value
    /\ loss_meter' = MeterUpdated(loss_meter, tr_loss_value, tr_batchsize)
    /\ tr_events' = Append(tr_events, Event("step", tr_i + 1, tr_grads))
    /\ tr_pc' = "progress"
    /\ UNCHANGED <<train_loader, tr_num_samples, tr_training, tr_i, tr_batchsize,
                   tr_grads, tr_prediction, tr_loss_value, time_updates, tr_ret>>
    /\ UNCHANGED trainFrame

\* Lines 70-74: the progress text, batch_time; on to the next batch.
TrainProgress ==
    /\ tr_pc = "progress"
    /\ time_updates' = <<time_updates[1], time_updates[2] + 1>>
    /\ tr_i' = tr_i + 1
    /\ tr_pc' = "fetch"
    /\ UNCHANGED <<train_loader, tr_num_samples, tr_training, tr_batchsize,
                   tr_grads, tr_prediction, tr_loss_value, model_loss, loss_meter,
                   tr_events, tr_ret>>
    /\ UNCHANGED trainFrame

\* Line 76: the loader is exhausted; optimizer.zero_grad()
TrainFinalZeroGrad ==
    /\ tr_pc = "fetch" /\ tr_i = Len(train_loader)
    /\ tr_grads' = GradsZeroed(tr_grads)
    /\ tr_events' = Append(tr_events, Event("zero_grad", 0, tr_grads))
    /\ tr_pc' = "return"
    /\ UNCHANGED <<train_loader, tr_num_samples, tr_training, tr_i, tr_batchsize,
                   tr_prediction, tr_loss_value, model_loss, loss_meter,
                   time_updates, tr_ret>>
    /\ UNCHANGED trainFrame

\* Lines 78-80: N = train_loader.num_samples; return model_loss / N
TrainReturn ==
    /\ tr_pc = "return"
    /\ tr_ret' = Quot(model_loss, tr_num_samples)
    /\ tr_pc' = "done"
    /\ UNCHANGED <<train_loader, tr_num_samples, tr_training, tr_i, tr_batchsize,
                   tr_grads, tr_prediction, tr_loss_value, model_loss, loss_meter,
                   time_updates, tr_events>>
    /\ UNCHANGED trainFrame

TrainNext ==
    \/ TrainEnter \/ TrainFetch \/ TrainZeroGrad \/ TrainForward \/ TrainLoss
    \/ TrainBackward \/ TrainStep \/ TrainProgress \/ TrainFinalZeroGrad
    \/ TrainReturn

-----------------------------------------------------------------------------
(* Properties of train.                                                    *)

BatchOps == <<"zero_grad", "forward", "loss", "backward", "step">>

\* The p-th call (from 1) of a run over n batches: the five calls of batch
\* 1, then those of batch 2, ..., then one zero_grad with no batch in hand.
ExpectedCall(p, n) ==
    IF p <= 5 * n
    THEN [op |-> BatchOps[((p - 1) % 5) + 1], batch |-> ((p - 1) \div 5) + 1]
    ELSE [op |-> "zero_grad", batch |-> 0]

\* The sum over the loader's batches of size times loss.
WeightedLossSum ==
    SumSeq([i \in 1..Len(train_loader) |->
               train_loader[i].size * train_loader[i].loss])

\* C13: in one call of train the batches are taken in the loader's order
\* and for each the calls are zero_grad, forward, loss, backward, step, in
\* that order, one step per batch, each step on the gradients of its own
\* batch alone; after the last batch zero_grad is called once more and the
\* function returns the size-weighted loss sum over loader.num_samples.
C13_TrainCallOrder ==
    tr_pc # "idle" =>
        /\ Len(tr_events) <= 5 * Len(train_loader) + 1
        /\ \A p \in 1..Len(tr_events) :
              /\ tr_events[p].op = ExpectedCall(p, Len(train_loader)).op
              /\ tr_events[p].batch = ExpectedCall(p, Len(train_loader)).batch
              /\ tr_events[p].op = "step" => tr_events[p].grads = <<tr_events[p].batch>>
        /\ Len(tr_events) >= 5 * tr_i
        /\ tr_pc = "done" =>
              /\ Len(tr_events) = 5 * Len(train_loader) + 1
              /\ tr_i = Len(train_loader)
              /\ tr_grads = <<>>
              /\ tr_ret = Quot(WeightedLossSum, tr_num_samples)

\* train returned after two batches of different sizes and losses, entered
\* with gradients left from before, with a num_samples that is not the
\* number of samples delivered.
C13_Witness ==
    /\ tr_pc = "done"
    /\ Len(train_loader) = 2
    /\ train_loader[1].size # train_loader[2].size
    /\ train_loader[1].loss # train_loader[2].loss
    /\ train_loader[2].loss > 0
    /\ tr_events[1].grads = <<0>>
    /\ tr_num_samples # train_loader[1].size + train_loader[2].size
    /\ tr_ret[1] > 0

-----------------------------------------------------------------------------
(* InMemoryImageNet(path, num_samples, transforms).                        *)

MaxRecords == 3
MaxCap == 3

\* The records of a file: a pickled image and its label.
FileRecords == {<<<<"pickled", "a">>, 0>>, <<<<"pickled", "b">>, 1>>}

\* pickle.loads(x)
PickleLoads(x) == x[2]

\* The pair appended for a record: x, label = sample; (pickle.loads(x), label)
SampleOf(record) == <<PickleLoads(record[1]), record[2]>>

\* i == self.num_samples - 1, i the index (from 0) of the record just
\* appended.
CapReached(i, cap) == i = cap - 1

LoadIdle ==
    /\ im_pc = "idle" /\ im_file = <<>> /\ im_num_samples = 0
    /\ im_samples = <<>> /\ im_i = 0

\* Lines 278-282: the fields are set, samples = [], the file is opened.
LoadInit ==
    /\ im_pc = "read"
    /\ \E n \in 0..MaxRecords : im_file \in [1..n -> FileRecords]
    /\ im_num_samples \in 0..MaxCap
    /\ im_samples = <<>> /\ im_i = 0

\* Lines 283-288, one record: it is appended; at the cap the loop breaks
\* and the file is closed.
LoadRecord ==
    /\ im_pc = "read" /\ im_i < Len(im_file)
    /\ im_samples' = Append(im_samples, SampleOf(im_file[im_i + 1]))
    /\ im_i' = im_i + 1
    /\ im_pc' = IF CapReached(im_i, im_num_samples) THEN "closed" ELSE "read"
    /\ UNCHANGED <<im_file, im_num_samples>>
    /\ UNCHANGED loadFrame

\* Lines 283, 289: the file has no further record; it is closed.
LoadEnd ==
    /\ im_pc = "read" /\ im_i = Len(im_file)
    /\ im_pc' = "closed"
    /\ UNCHANGED <<im_file, im_num_samples, im_samples, im_i>>
    /\ UNCHANGED loadFrame

LoadNext == LoadRecord \/ LoadEnd

\* C14: construction reads the records in file order and stops at the cap:
\* the container never holds more than num_samples records, and when the
\* constructor is done it holds exactly the first min(n, num_samples)
\* records of the file.
C14_RetainsFirstRecordsUpToCap ==
    im_pc # "idle" =>
        /\ Len(im_samples) <= im_num_samples
        /\ im_pc = "closed" =>
              LET kept == IF Len(im_file) < im_num_samples THEN Len(im_file)
                          ELSE im_num_samples
              IN  /\ Len(im_samples) = kept
                  /\ \A r \in 1..kept : im_samples[r] = SampleOf(im_file[r])

-----------------------------------------------------------------------------
(* The specifications: one per component, the others idle.                 *)

CgmStart == CgmInit /\ EvalIdle /\ FitIdle /\ MeterIdle /\ CkptIdle /\
                   TermIdle /\ TrackIdle /\ TrainIdle /\ LoadIdle

SpecCgm == CgmStart /\ [][CgmNext]_vars

EvalStart == EvalInit /\ CgmIdle /\ FitIdle /\ MeterIdle /\ CkptIdle /\
                     TermIdle /\ TrackIdle /\ TrainIdle /\ LoadIdle

SpecEval == EvalStart /\ [][EvalNext]_vars

FitStart == FitInit /\ CgmIdle /\ EvalIdle /\ MeterIdle /\ CkptIdle /\
                   TermIdle /\ TrackIdle /\ TrainIdle /\ LoadIdle

SpecFit == FitStart /\ [][FitNext]_vars

MeterStart == MeterInit /\ CgmIdle /\ EvalIdle /\ FitIdle /\ CkptIdle /\
                       TermIdle /\ TrackIdle /\ TrainIdle /\ LoadIdle

SpecMeter == MeterStart /\ [][MeterNext]_vars

CkptStart == CkptInit /\ CgmIdle /\ EvalIdle /\ FitIdle /\ MeterIdle /\
                     TermIdle /\ TrackIdle /\ TrainIdle /\ LoadIdle

SpecCkpt == CkptStart /\ [][CkptNext]_vars

TermStart == TermInit /\ CgmIdle /\ EvalIdle /\ FitIdle /\ MeterIdle /\
                     CkptIdle /\ TrackIdle /\ TrainIdle /\ LoadIdle

SpecTerm == TermStart /\ [][TermNext]_vars

TrackStart == TrackInit /\ CgmIdle /\ EvalIdle /\ FitIdle /\ MeterIdle /\
                       CkptIdle /\ TermIdle /\ TrainIdle /\ LoadIdle

SpecTrack == TrackStart /\ [][TrackNext]_vars

TrainStart == TrainInit /\ CgmIdle /\ EvalIdle /\ FitIdle /\ MeterIdle /\
                       CkptIdle /\ TermIdle /\ TrackIdle /\ LoadIdle

SpecTrain == TrainStart /\ [][TrainNext]_vars

LoadStart == LoadInit /\ CgmIdle /\ EvalIdle /\ FitIdle /\ MeterIdle /\
                     CkptIdle /\ TermIdle /\ TrackIdle /\ TrainIdle

SpecLoad == LoadStart /\ [][LoadNext]_vars

=============================================================================
